---- MODULE Spec2Model ----
(***************************************************************************)
(* State-machine model of McpService (src/unnamed/part_009): the registry  *)
(* of MCP clients, the pending-initialization map, the list/get cache and  *)
(* the map of active tool calls.                                           *)
(*                                                                         *)
(* JavaScript runs the service on one thread: every action below is one    *)
(* synchronous section of a handler, from a resumption (a call or the      *)
(* settling of an awaited promise) to the next await.  A caller and the    *)
(* asynchronous initialization it starts are separate tasks: the caller is *)
(* a slot of proc, the initialization an element of inits.                 *)
(*                                                                         *)
(* Every call receives its own MCPServer object (the handlers are reached  *)
(* over IPC, which copies the argument), so an assignment to server.env is *)
(* seen by the call that made it and by no other call.                     *)
(***************************************************************************)
EXTENDS Integers, Sequences, FiniteSets, TLC

\* ---------------------------------------------------------------- bounds

\* Handler invocations started in one behaviour, each in a slot of its own:
\* as many may be in flight at once.
MaxOps == 3

\* tool/prompt/resource list changes a remote server makes in one behaviour.
MaxChanges == 1

Procs == 1..MaxOps

\* ------------------------------------------------------ server definitions

\* JavaScript's undefined, for the string-valued fields of MCPServer.
U == "undefined"

EnvUndef == [kind |-> "undefined", entries |-> <<>>]

EnvObj(es) == [kind |-> "object", entries |-> es]

ArgsUndef == [kind |-> "undefined", items |-> <<>>]

ArgsArr(xs) == [kind |-> "array", items |-> xs]

\* A truthy args value that is no array and not iterable (an object, a number).
ArgsObj == [kind |-> "object", items |-> <<>>]

\* {id:"s1", baseUrl:"http://x/rpc", type:"streamableHttp"}
HttpDef ==
    [id |-> "s1", name |-> "s1", type |-> "streamableHttp", baseUrl |-> "http://x/rpc",
     command |-> U, args |-> ArgsUndef, registryUrl |-> U, env |-> EnvUndef,
     dxtPath |-> U, builtin |-> FALSE]

\* {id:"s2", command:"npx", args:["pkg"], registryUrl:"https://r"}
NpxDef ==
    [id |-> "s2", name |-> "s2", type |-> "stdio", baseUrl |-> U,
     command |-> "npx", args |-> ArgsArr(<<"pkg">>), registryUrl |-> "https://r",
     env |-> EnvUndef, dxtPath |-> U, builtin |-> FALSE]

\* {id:"s3", command:"node", args:{}}: args is not iterable.
BadArgsDef ==
    [id |-> "s3", name |-> "s3", type |-> "stdio", baseUrl |-> U,
     command |-> "node", args |-> ArgsObj, registryUrl |-> U,
     env |-> EnvUndef, dxtPath |-> U, builtin |-> FALSE]

\* No server: the value of a slot's server field while the slot is idle.
NoServer ==
    [id |-> "none", name |-> "none", type |-> U, baseUrl |-> U,
     command |-> U, args |-> ArgsUndef, registryUrl |-> U, env |-> EnvUndef,
     dxtPath |-> U, builtin |-> FALSE]

\* ------------------------------------------------------------ getServerKey

\* JSON.stringify of the six key fields in a fixed order: a property whose
\* value is undefined is left out, args that is no array becomes [], and the
\* entries of env are written in their insertion order.
getServerKey(server) ==
    [baseUrl |-> server.baseUrl,
     command |-> server.command,
     args |-> IF server.args.kind = "array" THEN server.args.items ELSE <<>>,
     registryUrl |-> server.registryUrl,
     env |-> server.env,
     id |-> server.id]

NoKey == getServerKey(NoServer)

\* ------------------------------------------------- object spread on env

\* The entries of {...env}: none when env is undefined.
Spread(env) == IF env.kind = "object" THEN env.entries ELSE <<>>

\* {...entries, k: v}: an existing property keeps its place, a new one is last.
EnvSet(entries, k, v) ==
    IF \E i \in 1..Len(entries) : entries[i][1] = k
    THEN [i \in 1..Len(entries) |->
            IF entries[i][1] = k THEN <<k, v>> ELSE entries[i]]
    ELSE Append(entries, <<k, v>>)

\* ------------------------------------------------------------ initTransport

IsPackageRunnerUv(cmd) == cmd \in {"uvx", "uv"}

\* {...a, ...b} on entry lists.
RECURSIVE EnvMerge(_, _)
EnvMerge(a, b) ==
    IF b = <<>> THEN a
    ELSE EnvMerge(EnvSet(a, Head(b)[1], Head(b)[2]), Tail(b))

\* DxtService.getResolvedMcpConfig(dxtPath): the resolved configuration of an
\* extracted bundle, or none when it cannot be resolved.
getResolvedMcpConfig(dxtPath) ==
    IF dxtPath = "/dxt/ok"
    THEN [found |-> TRUE, command |-> "node", args |-> <<"main.js">>,
          env |-> <<<<"DXT_HOME", "/dxt/ok">>>>]
    ELSE [found |-> FALSE, command |-> U, args |-> <<>>, env |-> <<>>]

\* server.env after the bundle branch: {...server.env, ...resolvedConfig.env}.
EnvAfterDxt(server) ==
    IF server.dxtPath # U /\ getResolvedMcpConfig(server.dxtPath).found
    THEN EnvObj(EnvMerge(Spread(server.env), getResolvedMcpConfig(server.dxtPath).env))
    ELSE server.env

\* server.env after initTransport has run on the object.  Only the
\* subprocess branch assigns it: the bundle branch merges the resolved env,
\* the npx branch adds NPM_CONFIG_REGISTRY (and MCP_REGISTRY_PATH for the
\* auto-install server) and the uvx/uv branch adds UV_DEFAULT_INDEX and
\* PIP_INDEX_URL, the last two branches only when a registryUrl is set.
EnvAfterInitTransport(server) ==
    IF (server.builtin /\ server.name # "@cherry/mcp-auto-install")
       \/ server.baseUrl # U \/ server.command = U
    THEN server.env
    ELSE IF server.command = "npx" /\ server.registryUrl # U
    THEN LET e == EnvSet(Spread(EnvAfterDxt(server)), "NPM_CONFIG_REGISTRY",
                         server.registryUrl)
         IN  IF server.name = "@cherry/mcp-auto-install"
             THEN EnvObj(EnvSet(e, "MCP_REGISTRY_PATH", "bin/../config/mcp-registry.json"))
             ELSE EnvObj(e)
    ELSE IF IsPackageRunnerUv(server.command) /\ server.registryUrl # U
    THEN EnvObj(EnvSet(EnvSet(Spread(EnvAfterDxt(server)), "UV_DEFAULT_INDEX",
                              server.registryUrl),
                       "PIP_INDEX_URL", server.registryUrl))
    ELSE EnvAfterDxt(server)

\* Whether initTransport awaits I/O before it settles: the in-process branch
\* awaits the start of the in-memory server and the subprocess branch the
\* binary path and the login-shell environment; the HTTP branches and the
\* final throw reach no await.
TransportAwaitsIO(server) ==
    \/ server.builtin /\ server.name # "@cherry/mcp-auto-install"
    \/ server.baseUrl = U /\ server.command # U

\* A selection that looks at the command before the URL.
TransportCommandFirst(server) ==
    IF server.builtin /\ server.name # "@cherry/mcp-auto-install" THEN "inMemory"
    ELSE IF server.command # U THEN "stdio"
    ELSE IF server.baseUrl # U
    THEN IF server.type \in {"streamableHttp", "sse"} THEN server.type
         ELSE "Invalid server type"
    ELSE "Either baseUrl or command must be provided"

\* Lines 230-370: the transport initTransport constructs for a definition, or
\* the message of the error it throws: the in-memory pair for a built-in
\* other than auto-install, else for a baseUrl the transport of the type
\* (and an error for any other type), else for a command the subprocess
\* transport, else the error that neither was provided.
TransportOf(server) ==
    IF server.builtin /\ server.name # "@cherry/mcp-auto-install" THEN "inMemory"
    ELSE IF server.baseUrl # U
    THEN IF server.type = "streamableHttp" THEN "streamableHttp"
         ELSE IF server.type = "sse" THEN "sse"
         ELSE "Invalid server type"
    ELSE IF server.command # U THEN "stdio"
    ELSE "Either baseUrl or command must be provided"

\* Whether the bundle branch (lines 280-297) replaces command and args: the
\* definition has a dxtPath and its configuration resolves.
BundleResolves(server) ==
    server.dxtPath # U /\ getResolvedMcpConfig(server.dxtPath).found

\* getBinaryPath(name): the path of a bundled binary.
getBinaryPath(name) == <<"bin", name>>

\* args.includes(x)
Includes(xs, x) == \E i \in 1..Len(xs) : xs[i] = x

\* The command the subprocess is spawned with (lines 278-329): the raw or
\* the resolved command, then replaced by the path of bun when the raw
\* command is npx and by the path of the runner when it is uvx or uv.
StdioCommand(server) ==
    IF server.command = "npx" THEN getBinaryPath("bun")
    ELSE IF IsPackageRunnerUv(server.command) THEN getBinaryPath(server.command)
    ELSE IF BundleResolves(server) THEN getResolvedMcpConfig(server.dxtPath).command
    ELSE server.command

\* The args the subprocess is spawned with (lines 216, 284, 303-311): the
\* copy of the raw args or the resolved args, with -y and x put in front
\* when the raw command is npx and there are args.
StdioArgs(server) ==
    LET a0 == IF BundleResolves(server)
              THEN getResolvedMcpConfig(server.dxtPath).args
              ELSE server.args.items
        a1 == IF Includes(a0, "-y") THEN a0 ELSE <<"-y">> \o a0
        a2 == IF Includes(a1, "x") THEN a1 ELSE <<"x">> \o a1
    IN  IF server.command = "npx" /\ Len(a0) > 0 THEN a2 ELSE a0

\* Lines 345-361: the options of the StdioClientTransport (the entries of
\* server.env, which are laid over the login-shell environment, and the
\* working directory, set whenever the definition has a dxtPath).
StdioOptions(server) ==
    [command |-> StdioCommand(server),
     args |-> StdioArgs(server),
     env |-> Spread(EnvAfterInitTransport(server)),
     cwd |-> server.dxtPath]

\* Whether initTransport returns a transport (TRUE) or throws.
TransportBuilds(server) ==
    IF server.builtin /\ server.name # "@cherry/mcp-auto-install" THEN TRUE
    ELSE IF server.baseUrl # U THEN server.type \in {"streamableHttp", "sse"}
    ELSE server.command # U

\* ------------------------------------------------------------------ state

VARIABLES
    proc,             \* the handler invocation running in each slot
    clients,          \* McpService.clients: serverKey -> client
    pendingClients,   \* McpService.pendingClients: serverKey -> initPromise
    inits,            \* every initPromise created, with the Client it made
    cache,            \* CacheService: cache key -> value (and the call that set it)
    activeToolCalls,  \* McpService.activeToolCalls: callId -> AbortController
    ctrls,            \* every AbortController created: TRUE once aborted
    remote,           \* the remote servers' lists: <<server id, kind>> -> version
    opsStarted,       \* handler invocations started so far
    changes           \* remote list changes so far

vars ==
    <<proc, clients, pendingClients, inits, cache, activeToolCalls, ctrls,
      remote, opsStarted, changes>>

ServerIds == {"s1", "s2", "s3"}

ListKinds == {"list_tool", "list_prompts", "list_resources"}

GetKinds == {"get_prompt", "get_resource"}

CacheKinds == ListKinds \cup GetKinds

CallIds == {"c1", "c2"}

\* A slot that runs nothing.
IdleProc ==
    [op |-> "idle", pc |-> "idle", server |-> NoServer, key |-> NoKey,
     kind |-> "none", arg |-> "none", callId |-> "none", ctrl |-> 0, signal |-> 0,
     existing |-> 0, init |-> 0, client |-> 0, pingFailed |-> 0,
     result |-> "none", value |-> 0,
     \* history of a call: the call that wrote the cache entry found at the
     \* call (0: none), whether the remote call was made, and whether an
     \* entry was in the cache when the remote call settled
     entryAtStart |-> 0, computed |-> FALSE, redundant |-> FALSE,
     \* how the remote call of a cached implementation settled
     outcome |-> "none",
     \* history of a restartServer call: the initializations that had been
     \* started when it was called
     initsBefore |-> 0,
     \* history of an abortTool call: whether an invocation of callTool with
     \* the callId was in flight and not aborted when it was called
     wasActive |-> FALSE]

Init ==
    /\ proc = [p \in Procs |-> IdleProc]
    /\ clients = <<>>
    /\ pendingClients = <<>>
    /\ inits = <<>>
    /\ cache = <<>>
    /\ activeToolCalls = <<>>
    /\ ctrls = <<>>
    /\ remote = [x \in ServerIds \X ListKinds |-> 0]
    /\ opsStarted = 0
    /\ changes = 0

\* Map.delete / CacheService.remove.
MapDelete(m, k) == [x \in DOMAIN m \ {k} |-> m[x]]

\* Map.set / CacheService.set.
MapSet(m, k, v) == (k :> v) @@ m

\* A caller awaits a promise that has settled: its continuation is on the
\* microtask queue.  Microtasks run before the event loop takes the next
\* task, so no call arrives and no I/O completes while one is queued.
MicrotaskPending ==
    \/ \E p \in Procs :
        /\ proc[p].pc = "awaitInit"
        /\ inits[proc[p].init].pc \in {"ok", "failed"}
    \/ \E i \in 1..Len(inits) :
        /\ inits[i].pc \in {"transport", "retransport"}
        /\ ~TransportAwaitsIO(proc[inits[i].by].server)
    \* the catch of checkMcpConnectivity follows the rejection it caught in
    \* the same synchronous section
    \/ \E p \in Procs : proc[p].pc = "catch"

\* The event loop can take the next task.
TaskTurn == ~MicrotaskPending

\* The n-th invocation of a behaviour runs in slot n.
Free(p) == TaskTurn /\ p = opsStarted + 1

\* The record of a fresh invocation of handler op on its own server object.
NewProc(op, server) ==
    [IdleProc EXCEPT !.op = op, !.server = server, !.key = getServerKey(server)]

\* The record of an invocation that has returned (result "ok") or thrown.
\* Its locals are gone with its frame; the record of a call of initClient
\* or restartServer keeps the initialization it awaited and the client whose
\* ping failed, which its result is stated against.
Done(pr, result, value) ==
    LET r == [pr EXCEPT !.pc = "done", !.result = result, !.value = value,
                        !.existing = 0, !.signal = 0]
    IN  IF pr.op \in {"initClient", "restartServer"}
        THEN r
        ELSE [r EXCEPT !.init = 0, !.client = 0, !.pingFailed = 0]

\* --------------------------------------------------------------- initClient

\* Whether the body of initPromise throws before its first await: the copy
\* [...(server.args || [])] throws a TypeError for a truthy args that is not
\* iterable.
ThrowsBeforeFirstAwait(server) == server.args.kind = "object"

\* The record of a new initPromise started by slot p for serverKey key.
NewInit(p, key, server) ==
    [key |-> key, by |-> p,
     pc |-> IF ThrowsBeforeFirstAwait(server) THEN "failed" ELSE "transport",
     open |-> FALSE, handlerKey |-> NoKey, registered |-> FALSE,
     \* handleAuth: whether it was started, whether its callback listener
     \* is open and its 5-minute timer armed; the connect attempts made
     authStarted |-> FALSE, listener |-> FALSE, timer |-> FALSE, connects |-> 0,
     timedOut |-> FALSE]

\* pendingClients after the body of initPromise has run to its first await
\* and line 456 has stored the promise: a body that throws before its first
\* await runs its finally (the delete) first, and the set comes after.
PendingAfterStart(pending, key, i, server) ==
    IF ThrowsBeforeFirstAwait(server)
    THEN MapSet(MapDelete(pending, key), key, i)
    ELSE MapSet(pending, key, i)

\* Lines 203-458: create initPromise against registry cl, store it in
\* pendingClients and await it.
StartInit(p, pr, cl) ==
    LET i == Len(inits) + 1 IN
    /\ inits' = Append(inits, NewInit(p, pr.key, pr.server))
    /\ pendingClients' = PendingAfterStart(pendingClients, pr.key, i, pr.server)
    /\ clients' = cl
    /\ proc' = [proc EXCEPT ![p] = [pr EXCEPT !.pc = "awaitInit", !.init = i]]

\* Lines 171-201, up to the first await of initClient(pr.server) in slot p,
\* entered with the registry cl.
InitClientEntry(p, pr, cl) ==
    LET key == getServerKey(pr.server)
        pk  == [pr EXCEPT !.key = key]
    IN  IF key \in DOMAIN pendingClients
        THEN /\ proc' = [proc EXCEPT ![p] =
                            [pk EXCEPT !.pc = "awaitInit", !.init = pendingClients[key]]]
             /\ clients' = cl
             /\ UNCHANGED <<pendingClients, inits>>
        ELSE IF key \in DOMAIN cl
        THEN /\ proc' = [proc EXCEPT ![p] =
                            [pk EXCEPT !.pc = "ping", !.existing = cl[key]]]
             /\ clients' = cl
             /\ UNCHANGED <<pendingClients, inits>>
        ELSE StartInit(p, pk, cl)

\* The operation kind a caching handler caches under.
KindOf(op) ==
    CASE op = "listTools" -> "list_tool"
      [] op = "listPrompts" -> "list_prompts"
      [] op = "listResources" -> "list_resources"
      [] op = "getPrompt" -> "get_prompt"
      [] op = "getResource" -> "get_resource"
      [] OTHER -> "none"

CachedOps == {"listTools", "listPrompts", "listResources", "getPrompt", "getResource"}

\* A finally of callToolFunc that leaves the entry.
ActiveKeptAfterCall(atc, callId) == atc

\* activeToolCalls after the finally of callToolFunc (line 710).
ActiveAfterCall(atc, callId) == MapDelete(atc, callId)

\* Line 703: the signal handed to client.callTool is that of the controller
\* activeToolCalls holds for the callId when the remote call is issued, or
\* no signal (0) when it holds none.
SignalAtCall(atc, callId, own) == IF callId \in DOMAIN atc THEN atc[callId] ELSE 0

\* What the caller of initClient does when initClient returns client c
\* (ok) or throws: callTool issues the remote call, or runs its finally;
\* the cached handlers issue the remote call, or throw without caching;
\* checkMcpConnectivity lists the tools, or enters its catch;
\* initClient's direct callers and restartServer are done.
AfterInitClient(p, pr, ok, c) ==
    /\ UNCHANGED cache
    /\ IF pr.op = "callTool"
       THEN IF ok
            THEN /\ proc' = [proc EXCEPT ![p] =
                                [pr EXCEPT !.pc = "remote", !.client = c,
                                           !.computed = TRUE,
                                           !.signal = SignalAtCall(activeToolCalls,
                                                                   pr.callId, pr.ctrl)]]
                 /\ UNCHANGED activeToolCalls
            ELSE /\ proc' = [proc EXCEPT ![p] = Done(pr, "error", 0)]
                 /\ activeToolCalls' = ActiveAfterCall(activeToolCalls, pr.callId)
       ELSE /\ UNCHANGED activeToolCalls
            /\ IF pr.op = "checkMcpConnectivity"
               THEN IF ok
                    THEN proc' = [proc EXCEPT ![p] = [pr EXCEPT !.pc = "remote", !.client = c,
                                                                !.computed = TRUE]]
                    ELSE proc' = [proc EXCEPT ![p] = [pr EXCEPT !.pc = "catch"]]
               ELSE IF ~ok
               THEN proc' = [proc EXCEPT ![p] = Done(pr, "error", 0)]
               ELSE IF pr.op \in CachedOps
               THEN proc' = [proc EXCEPT ![p] = [pr EXCEPT !.pc = "remote", !.client = c,
                                                           !.computed = TRUE]]
               ELSE proc' = [proc EXCEPT ![p] = Done([pr EXCEPT !.client = c], "ok", c)]

\* A registry that keeps the entry of a client whose ping failed.
ClientsKeptAfterPingFailure(cl, key) == cl

\* The registry after a ping that failed (lines 193 and 199).
ClientsAfterPingFailure(cl, key) == MapDelete(cl, key)

\* Lines 185-201: the ping of the cached client settles.  A truthy result
\* returns the cached client; a falsy result, an error or the 1 s timeout
\* deletes the registry entry and goes on to a new initialization.  A client
\* that has been closed answers no ping.
PingSettles(p) ==
    /\ TaskTurn
    /\ proc[p].pc = "ping"
    /\ \E ok \in BOOLEAN :
        /\ ok => inits[proc[p].existing].open
        /\ IF ok
           THEN /\ AfterInitClient(p, proc[p], TRUE, proc[p].existing)
                /\ UNCHANGED <<clients, pendingClients, inits>>
           ELSE /\ StartInit(p, [proc[p] EXCEPT !.pingFailed = proc[p].existing],
                             ClientsAfterPingFailure(clients, proc[p].key))
                /\ UNCHANGED <<cache, activeToolCalls>>
    /\ UNCHANGED <<ctrls, remote, opsStarted, changes>>

\* Lines 522-527: the three list entries of the key are removed.
clearServerCache(c, key) ==
    [k \in DOMAIN c \ {<<kind, key, "none">> : kind \in ListKinds} |-> c[k]]

\* A finally of initPromise that leaves the pending entry.
PendingKeptAfterSettle(pending, key) == pending

\* Lines 449-452: the finally of initPromise deletes the pending entry of
\* the key, whichever promise it holds.
PendingAfterSettle(pending, key) == MapDelete(pending, key)

\* A handleAuth that leaves its listener as it is when it ends.
ListenerLeftAfterAuth(listener) == listener

\* Lines 412-415: the finally of handleAuth clears the timer and closes the
\* callback listener; an initialization that never started handleAuth has
\* none.
ListenerAfterAuth(listener) == FALSE

\* Lines 445-452: the initialization fails and its finally runs.
InitFails(i) ==
    /\ inits' = [inits EXCEPT ![i].pc = "failed",
                              ![i].listener = ListenerAfterAuth(@), ![i].timer = FALSE]
    /\ pendingClients' = PendingAfterSettle(pendingClients, inits[i].key)
    /\ UNCHANGED <<clients, cache>>

\* A connect whose client is dropped.
ClientsLeftAfterConnect(cl, key, i) == cl

\* Line 435: this.clients.set(serverKey, client), whatever the registry holds
\* for the key and whatever ran while the initialization was in flight.
ClientsAfterConnect(cl, key, i) == MapSet(cl, key, i)

\* Lines 434-452: the connected client is stored under the serverKey computed
\* when initClient was entered, setupNotificationHandlers computes the
\* handlers' key from the server object as it is now, the list entries of
\* the key are cleared and the pending entry is deleted.
Activate(i) ==
    /\ clients' = ClientsAfterConnect(clients, inits[i].key, i)
    /\ inits' = [inits EXCEPT ![i].pc = "ok", ![i].open = TRUE, ![i].registered = TRUE,
                              ![i].handlerKey = getServerKey(proc[inits[i].by].server),
                              ![i].listener = ListenerAfterAuth(@), ![i].timer = FALSE]
    /\ cache' = clearServerCache(cache, inits[i].key)
    /\ pendingClients' = PendingAfterSettle(pendingClients, inits[i].key)

\* Line 419: initTransport settles, as a task when it awaited I/O and as a
\* microtask when it did not.  It has assigned server.env on the object of
\* the call that started the initialization.
InitTransportSettles(i) ==
    /\ inits[i].pc = "transport"
    /\ TransportAwaitsIO(proc[inits[i].by].server) => TaskTurn
    /\ LET by == inits[i].by
           server == proc[by].server
       IN  /\ proc' = [proc EXCEPT ![by].server.env = EnvAfterInitTransport(server)]
           /\ IF TransportBuilds(server)
              THEN /\ inits' = [inits EXCEPT ![i].pc = "connect", ![i].connects = @ + 1]
                   /\ UNCHANGED <<pendingClients, clients, cache>>
              ELSE InitFails(i)
    /\ UNCHANGED <<activeToolCalls, ctrls, remote, opsStarted, changes>>

\* Lines 422-431: whether a rejection of client.connect starts handleAuth:
\* the test looks at the error (its name or its message) and at nothing
\* else.
StartsAuth(server, r) == r = "unauthorized"

\* Lines 420-432: client.connect settles: connected, rejected as
\* unauthorized (handleAuth creates the callback listener, arms the 5-minute
\* timer and waits for the code), or failed.
ConnectSettles(i, r) ==
    /\ TaskTurn
    /\ inits[i].pc = "connect"
    /\ CASE r = "ok" -> Activate(i)
         [] StartsAuth(proc[inits[i].by].server, r) ->
               /\ inits' = [inits EXCEPT ![i].pc = "auth", ![i].authStarted = TRUE,
                                         ![i].listener = TRUE, ![i].timer = TRUE]
               /\ UNCHANGED <<pendingClients, clients, cache>>
         [] OTHER -> InitFails(i)
    /\ UNCHANGED <<proc, activeToolCalls, ctrls, remote, opsStarted, changes>>

\* Line 393: the callback listener receives the authorization code and
\* waitForAuthCode resolves; line 397 starts the token exchange.
AuthCodeArrives(i) ==
    /\ TaskTurn
    /\ inits[i].pc = "auth"
    /\ inits[i].listener
    /\ inits' = [inits EXCEPT ![i].pc = "finishAuth"]
    /\ UNCHANGED <<proc, clients, pendingClients, cache, activeToolCalls, ctrls, remote,
                   opsStarted, changes>>

\* Whether the transport handed to handleAuth has a finishAuth: the HTTP
\* transports have, the subprocess and in-process transports have not (the
\* cast of line 428 is not checked).
HasFinishAuth(server) == ~server.builtin /\ server.baseUrl # U

\* Lines 397-401: the token exchange settles; on success initTransport is
\* called again.
FinishAuthSettles(i, ok) ==
    /\ TaskTurn
    /\ inits[i].pc = "finishAuth"
    /\ ok => HasFinishAuth(proc[inits[i].by].server)
    /\ IF ok
       THEN /\ inits' = [inits EXCEPT ![i].pc = "retransport"]
            /\ UNCHANGED <<pendingClients, clients, cache>>
       ELSE InitFails(i)
    /\ UNCHANGED <<proc, activeToolCalls, ctrls, remote, opsStarted, changes>>

\* The state the retried connect leaves the initialization in when it is
\* rejected as unauthorized again, were it to start the flow over.
RetryAfterRejectedRetry(r) == IF r = "unauthorized" THEN "auth" ELSE "failed"

\* Lines 403-410: any rejection of the retried connect is caught and thrown
\* on as 'OAuth authentication failed'.
AfterRejectedRetry(r) == "failed"

\* Lines 401-403: the second initTransport settles and the connect is
\* retried on the transport it built.
AuthTransportSettles(i) ==
    /\ inits[i].pc = "retransport"
    /\ TransportAwaitsIO(proc[inits[i].by].server) => TaskTurn
    /\ LET by == inits[i].by IN
       proc' = [proc EXCEPT ![by].server.env = EnvAfterInitTransport(proc[by].server)]
    /\ inits' = [inits EXCEPT ![i].pc = "reconnect", ![i].connects = @ + 1]
    /\ UNCHANGED <<clients, pendingClients, cache, activeToolCalls, ctrls, remote,
                   opsStarted, changes>>

\* Lines 403-415: the retried connect settles and handleAuth ends.
AuthSettles(i) ==
    /\ TaskTurn
    /\ inits[i].pc = "reconnect"
    /\ \E r \in {"ok", "unauthorized", "error"} :
        IF r = "ok"
        THEN Activate(i)
        ELSE IF AfterRejectedRetry(r) = "failed"
        THEN InitFails(i)
        ELSE /\ inits' = [inits EXCEPT ![i].pc = "auth"]
             /\ UNCHANGED <<pendingClients, clients, cache>>
    /\ UNCHANGED <<proc, activeToolCalls, ctrls, remote, opsStarted, changes>>

\* CallBackServer.waitForAuthCode when the listener is closed before a code
\* has arrived: it rejects.
WaitForAuthCodeRejectsOnClose == TRUE

\* Lines 386-389: the 5-minute timer of handleAuth fires and closes the
\* callback listener.  A flow that is still waiting for the code fails.
AuthTimeout(i) ==
    /\ TaskTurn
    /\ inits[i].timer
    /\ IF inits[i].pc = "auth" /\ WaitForAuthCodeRejectsOnClose
       THEN /\ inits' = [inits EXCEPT ![i].pc = "failed", ![i].timedOut = TRUE,
                                      ![i].listener = FALSE, ![i].timer = FALSE]
            /\ pendingClients' = PendingAfterSettle(pendingClients, inits[i].key)
            /\ UNCHANGED <<clients, cache>>
       ELSE /\ inits' = [inits EXCEPT ![i].listener = FALSE, ![i].timer = FALSE]
            /\ UNCHANGED <<pendingClients, clients, cache>>
    /\ UNCHANGED <<proc, activeToolCalls, ctrls, remote, opsStarted, changes>>

\* The promise a caller of initClient awaits has settled: the caller resumes
\* with the promise's client, or with its error.
InitSettled(p) ==
    /\ proc[p].pc = "awaitInit"
    /\ inits[proc[p].init].pc \in {"ok", "failed"}
    /\ AfterInitClient(p, proc[p], inits[proc[p].init].pc = "ok", proc[p].init)
    /\ UNCHANGED <<clients, pendingClients, inits, ctrls, remote, opsStarted, changes>>

\* A direct call of initClient (getServerVersion and the other callers that
\* only need the client).
CallInitClient(p, d) ==
    /\ Free(p)
    /\ opsStarted' = opsStarted + 1
    /\ InitClientEntry(p, NewProc("initClient", d), clients)
    /\ UNCHANGED <<cache, activeToolCalls, ctrls, remote, changes>>

\* ------------------------------------------- closeClient and its callers

\* Lines 549-554: removeServer closes only when the registry holds a client;
\* closeClient itself (lines 530-540) tests the same entry again.
\* Lines 569-575: restartServer clears the list entries after closeClient
\* and then calls initClient.
AfterClose(p, pr, cl, c) ==
    IF pr.op = "restartServer"
    THEN /\ cache' = clearServerCache(c, pr.key)
         /\ InitClientEntry(p, pr, cl)
    ELSE /\ cache' = c
         /\ clients' = cl
         /\ proc' = [proc EXCEPT ![p] =
                         Done(pr, IF pr.op = "checkMcpConnectivity" THEN "false" ELSE "ok", 0)]
         /\ UNCHANGED <<pendingClients, inits>>

\* stopServer, removeServer or restartServer is called: closeClient finds
\* the client of the key and awaits its close, or finds none and returns.
CallClose(p, d, op) ==
    /\ Free(p)
    /\ opsStarted' = opsStarted + 1
    /\ LET pr == [NewProc(op, d) EXCEPT
                     !.initsBefore = IF op = "restartServer" THEN Len(inits) ELSE 0]
       IN
       IF pr.key \in DOMAIN clients
       THEN /\ proc' = [proc EXCEPT ![p] =
                           [pr EXCEPT !.pc = "closing", !.existing = clients[pr.key]]]
            /\ inits' = [inits EXCEPT ![clients[pr.key]].open = FALSE]
            /\ UNCHANGED <<clients, pendingClients, cache>>
       ELSE AfterClose(p, pr, clients, cache)
    /\ UNCHANGED <<activeToolCalls, ctrls, remote, changes>>

CallStopServer(p, d) == CallClose(p, d, "stopServer")

CallRemoveServer(p, d) == CallClose(p, d, "removeServer")

CallRestartServer(p, d) == CallClose(p, d, "restartServer")

\* How client.close() can settle.
CloseOutcomes == BOOLEAN

\* The closes of a remote that always lets go.
CloseOutcomesClean == {TRUE}

\* The serverKey closeClient was called with: the handlers that close pass
\* the key computed at the call, the catch of checkMcpConnectivity (line
\* 608) computes it from the server object as it is then.
CloseKey(pr) ==
    IF pr.op = "checkMcpConnectivity" THEN getServerKey(pr.server) ELSE pr.key

\* Lines 533-537: client.close() has settled.  When it resolved, the
\* registry entry of the key is deleted and the list entries of the key are
\* cleared; when it rejected, closeClient throws at line 533 with the entry
\* and the cache as they are, and so does its caller (none of stopServer,
\* removeServer, restartServer and the catch of checkMcpConnectivity
\* catches).
CloseSettles(p, ok) ==
    /\ TaskTurn
    /\ proc[p].pc = "closing"
    /\ IF ok
       THEN AfterClose(p, proc[p], MapDelete(clients, CloseKey(proc[p])),
                       clearServerCache(cache, CloseKey(proc[p])))
       ELSE /\ proc' = [proc EXCEPT ![p] = Done(proc[p], "error", 0)]
            /\ UNCHANGED <<clients, pendingClients, inits, cache>>
    /\ UNCHANGED <<activeToolCalls, ctrls, remote, opsStarted, changes>>

\* ---------------------------------------------------- checkMcpConnectivity

\* Lines 591-601: the probe is called and awaits initClient.
CallCheckConnectivity(p, d) ==
    /\ Free(p)
    /\ opsStarted' = opsStarted + 1
    /\ InitClientEntry(p, NewProc("checkMcpConnectivity", d), clients)
    /\ UNCHANGED <<cache, activeToolCalls, ctrls, remote, changes>>

\* Lines 603-605 and the catch: client.listTools() settles.
ProbeRemoteSettles(p, ok) ==
    /\ TaskTurn
    /\ proc[p].pc = "remote"
    /\ proc[p].op = "checkMcpConnectivity"
    /\ proc' = [proc EXCEPT ![p] =
                    IF ok
                    THEN Done([proc[p] EXCEPT !.outcome = "ok"], "true", 0)
                    ELSE [proc[p] EXCEPT !.pc = "catch", !.outcome = "error"]]
    /\ UNCHANGED <<clients, pendingClients, inits, cache, activeToolCalls, ctrls, remote,
                   opsStarted, changes>>

\* Lines 606-611: the catch computes the serverKey from the server object
\* and calls closeClient, which awaits the close of the client the registry
\* holds for that key, or finds none and returns.
ProbeCatch(p) ==
    /\ proc[p].pc = "catch"
    /\ LET key == CloseKey(proc[p]) IN
       IF key \in DOMAIN clients
       THEN /\ proc' = [proc EXCEPT ![p] =
                           [proc[p] EXCEPT !.pc = "closing", !.existing = clients[key]]]
            /\ inits' = [inits EXCEPT ![clients[key]].open = FALSE]
       ELSE /\ proc' = [proc EXCEPT ![p] = Done(proc[p], "false", 0)]
            /\ UNCHANGED inits
    /\ UNCHANGED <<clients, pendingClients, cache, activeToolCalls, ctrls, remote,
                   opsStarted, changes>>

\* --------------------------------------------------------------- withCache

\* The cache key of a caching handler's call: the kind, the serverKey of the
\* server passed in and, for getPrompt and getResource, the name/uri.
CacheKeyOf(pr) == <<pr.kind, pr.key, pr.arg>>

\* CacheService.has: a key is present until it is removed or its TTL ends.
CacheHas(c, k) == k \in DOMAIN c

\* CacheService.get.
CacheGet(c, k) == c[k].val

\* A withCache that never finds an entry.
WithCacheNeverHits(c, k) == FALSE

\* Lines 119-125: the cached value is returned when the cache has the key
\* and the value is truthy (every list and every result object is).
WithCacheHits(c, k) == CacheHas(c, k)

GetArgs == {"a"}

\* Lines 116-128: a caching handler is called.  On a hit the cached value is
\* returned; on a miss the implementation runs, first its initClient.
CallCached(p, d, op, arg) ==
    /\ Free(p)
    /\ op \in CachedOps
    /\ arg = IF KindOf(op) \in ListKinds THEN "none" ELSE "a"
    /\ opsStarted' = opsStarted + 1
    /\ LET p0 == [NewProc(op, d) EXCEPT !.kind = KindOf(op), !.arg = arg]
           pr == [p0 EXCEPT !.entryAtStart =
                     IF CacheKeyOf(p0) \in DOMAIN cache THEN cache[CacheKeyOf(p0)].by ELSE 0]
       IN
       IF WithCacheHits(cache, CacheKeyOf(pr))
       THEN /\ proc' = [proc EXCEPT ![p] = Done(pr, "ok", CacheGet(cache, CacheKeyOf(pr)))]
            /\ UNCHANGED <<clients, pendingClients, inits>>
       ELSE InitClientEntry(p, pr, clients)
    /\ UNCHANGED <<cache, activeToolCalls, ctrls, remote, changes>>

\* What the remote holds for a call: the version of the list, or the content
\* behind a name/uri.
RemoteValue(pr) ==
    IF pr.kind \in ListKinds THEN remote[<<pr.server.id, pr.kind>>] ELSE 0

\* The value listPromptsImpl and listResourcesImpl return for a failed
\* remote listing: the empty list.
EmptyList == -1

\* How the remote call of a cached implementation can settle: with a
\* result, with the error of code -32601 (method not found) or with any
\* other error (a refused request, a timeout, a closed transport).
RemoteOutcomes == {"ok", "notSupported", "error"}

\* The outcomes where the error code plays no part.
RemoteOutcomesPlain == {"ok", "error"}

\* Whether an implementation turns failure r of its remote call into a
\* returned value (lines 739-745, 808-814: the catch tests the code only to
\* decide whether to log, and returns [] either way) or throws (lines
\* 631-634, 771, 855-858).
SwallowsRemoteFailure(kind, r) == kind \in {"list_prompts", "list_resources"}

\* The remote has answered the call with what it holds, and the answer is
\* on its way: the call's continuation has not run yet.  What the remote
\* sends after the answer (a notification on the stream of its own that an
\* HTTP transport reads them from) can be handled before that continuation.
RemoteAnswers(p) ==
    /\ TaskTurn
    /\ proc[p].pc = "remote"
    /\ proc[p].op \in CachedOps
    /\ proc' = [proc EXCEPT ![p] = [proc[p] EXCEPT !.pc = "answered",
                                                    !.value = RemoteValue(proc[p])]]
    /\ UNCHANGED <<clients, pendingClients, inits, cache, activeToolCalls, ctrls, remote,
                   opsStarted, changes>>

\* Lines 128-131: the remote call of a cached implementation settles, with
\* the answer that was on its way or with what the remote holds now; a
\* returned value is stored under the cache key computed at the call,
\* whatever has happened to the cache since the call was issued.
CachedRemoteSettles(p, r) ==
    /\ TaskTurn
    /\ proc[p].pc \in {"remote", "answered"}
    /\ proc[p].pc = "answered" => r = "ok"
    /\ proc[p].op \in CachedOps
    /\ LET ok == r = "ok"
           pr == [proc[p] EXCEPT !.redundant = CacheKeyOf(proc[p]) \in DOMAIN cache,
                                 !.outcome = r]
           v  == IF ~ok THEN EmptyList
                 ELSE IF proc[p].pc = "answered" THEN proc[p].value
                 ELSE RemoteValue(pr)
       IN  IF ok \/ SwallowsRemoteFailure(pr.kind, r)
           THEN /\ cache' = MapSet(cache, CacheKeyOf(pr), [val |-> v, by |-> p])
                /\ proc' = [proc EXCEPT ![p] = Done(pr, "ok", v)]
           ELSE /\ proc' = [proc EXCEPT ![p] = Done(pr, "error", 0)]
                /\ UNCHANGED cache
    /\ UNCHANGED <<clients, pendingClients, inits, activeToolCalls, ctrls, remote,
                   opsStarted, changes>>

\* The TTL of a cache entry ends.
Expire(k) ==
    /\ TaskTurn
    /\ k \in DOMAIN cache
    /\ cache' = MapDelete(cache, k)
    /\ UNCHANGED <<proc, clients, pendingClients, inits, activeToolCalls, ctrls, remote,
                   opsStarted, changes>>

\* ------------------------------------------------------------ notifications

Notifications == {"tools", "resources", "prompts", "resourceUpdated"}

\* The cache key a notification handler removes (lines 472, 479, 486, 516),
\* built from the key setupNotificationHandlers computed.
HandlerCacheKey(n, handlerKey) ==
    CASE n = "tools" -> <<"list_tool", handlerKey, "none">>
      [] n = "prompts" -> <<"list_prompts", handlerKey, "none">>
      [] OTHER -> <<"list_resources", handlerKey, "none">>

\* The list a notification says has changed.
ChangedKind(n) ==
    CASE n = "tools" -> "list_tool"
      [] n = "prompts" -> "list_prompts"
      [] OTHER -> "list_resources"

\* The remote of connected client c changes a list and notifies; the handler
\* registered on c removes its cache entry.
Notification(c, n) ==
    /\ TaskTurn
    /\ c \in 1..Len(inits)
    /\ inits[c].pc = "ok"
    /\ inits[c].open
    /\ changes < MaxChanges
    /\ changes' = changes + 1
    /\ LET id == inits[c].key.id IN
       remote' = [remote EXCEPT ![<<id, ChangedKind(n)>>] = @ + 1]
    /\ cache' = MapDelete(cache, HandlerCacheKey(n, inits[c].handlerKey))
    /\ UNCHANGED <<proc, clients, pendingClients, inits, activeToolCalls, ctrls,
                   opsStarted>>

\* ------------------------------------------------------ callTool, abortTool

\* Callers name their calls as they like; up to renaming, a callId no call
\* has used yet is the first such one of CallIds.
FreshIdsInOrder(callId) ==
    callId = "c2" => \E q \in Procs : proc[q].op = "callTool" /\ proc[q].callId = "c1"

\* Lines 663-684: callTool registers a new AbortController under the callId
\* and runs to the await of initClient.
CallTool(p, d, callId) ==
    /\ Free(p)
    /\ FreshIdsInOrder(callId)
    /\ opsStarted' = opsStarted + 1
    /\ ctrls' = Append(ctrls, FALSE)
    /\ activeToolCalls' = MapSet(activeToolCalls, callId, Len(ctrls) + 1)
    /\ InitClientEntry(p, [NewProc("callTool", d) EXCEPT !.callId = callId,
                                                        !.ctrl = Len(ctrls) + 1],
                       clients)
    /\ UNCHANGED <<cache, remote, changes>>


\* Lines 685-711: the remote tool call settles.  A call whose signal has been
\* aborted is rejected as cancelled; any other call returns or fails.  The
\* finally deletes the entry of the callId.
ToolCallSettles(p) ==
    /\ TaskTurn
    /\ proc[p].pc = "remote"
    /\ proc[p].op = "callTool"
    /\ LET pr == proc[p]
           aborted == pr.signal # 0 /\ ctrls[pr.signal]
       IN  \E r \in {"ok", "error", "cancelled"} :
            /\ (r = "cancelled") <=> aborted
            /\ proc' = [proc EXCEPT ![p] = Done(pr, r, 0)]
    /\ activeToolCalls' = ActiveAfterCall(activeToolCalls, proc[p].callId)
    /\ UNCHANGED <<clients, pendingClients, inits, cache, ctrls, remote, opsStarted,
                   changes>>

\* An invocation of callTool with the callId is in flight and its controller
\* has not been aborted.
ActiveCall(callId) ==
    \E p \in Procs :
        /\ proc[p].op = "callTool"
        /\ proc[p].pc # "done"
        /\ proc[p].callId = callId
        /\ ~ctrls[proc[p].ctrl]

\* An abortTool that leaves the entry of the call it aborted.
ActiveKeptAfterAbort(atc, callId) == atc

\* activeToolCalls after abortTool found the callId (line 886).
ActiveAfterAbort(atc, callId) == MapDelete(atc, callId)

\* Lines 882-893: abortTool aborts and deletes the controller stored under
\* the callId and returns true, or finds none and returns false.
AbortTool(p, callId) ==
    /\ Free(p)
    /\ opsStarted' = opsStarted + 1
    /\ LET pr == [IdleProc EXCEPT !.op = "abortTool", !.callId = callId,
                                  !.wasActive = ActiveCall(callId)]
       IN  IF callId \in DOMAIN activeToolCalls
           THEN /\ ctrls' = [ctrls EXCEPT ![activeToolCalls[callId]] = TRUE]
                /\ activeToolCalls' = ActiveAfterAbort(activeToolCalls, callId)
                /\ proc' = [proc EXCEPT ![p] = Done(pr, "true", 0)]
           ELSE /\ proc' = [proc EXCEPT ![p] = Done(pr, "false", 0)]
                /\ UNCHANGED <<ctrls, activeToolCalls>>
    /\ UNCHANGED <<clients, pendingClients, inits, cache, remote, changes>>

\* ----------------------------------------------------------- specifications

\* How client.connect can settle; only the remotes of the authorization
\* specification ask for authorization.
ConnectOutcomes == {"ok", "unauthorized", "error"}

ConnectOutcomesNoAuth == {"ok", "error"}

ConnDefs == {HttpDef, BadArgsDef}

\* The connection registry: initClient, stop and restart on two definitions.
NextConn ==
    \/ \E p \in Procs, d \in ConnDefs : CallInitClient(p, d)
    \/ \E p \in Procs, d \in ConnDefs : CallStopServer(p, d)
    \/ \E p \in Procs, d \in ConnDefs : CallRestartServer(p, d)
    \/ \E p \in Procs : PingSettles(p)
    \/ \E p \in Procs : InitSettled(p)
    \/ \E p \in Procs, ok \in CloseOutcomesClean : CloseSettles(p, ok)
    \/ \E i \in 1..Len(inits) : InitTransportSettles(i)
    \/ \E i \in 1..Len(inits), r \in ConnectOutcomesNoAuth : ConnectSettles(i, r)

SpecConn == Init /\ [][NextConn]_vars

AuthDefs == {HttpDef, NpxDef}

\* The authorization flow: initClient against remotes that may reject a
\* connect as unauthorized.
NextAuth ==
    \/ \E p \in Procs, d \in AuthDefs : CallInitClient(p, d)
    \/ \E p \in Procs : PingSettles(p)
    \/ \E p \in Procs : InitSettled(p)
    \/ \E i \in 1..Len(inits) : InitTransportSettles(i)
    \/ \E i \in 1..Len(inits), r \in ConnectOutcomes : ConnectSettles(i, r)
    \/ \E i \in 1..Len(inits) : AuthCodeArrives(i)
    \/ \E i \in 1..Len(inits), ok \in BOOLEAN : FinishAuthSettles(i, ok)
    \/ \E i \in 1..Len(inits) : AuthTransportSettles(i)
    \/ \E i \in 1..Len(inits) : AuthSettles(i)
    \/ \E i \in 1..Len(inits) : AuthTimeout(i)

SpecAuth == Init /\ [][NextAuth]_vars

AuthWaitDefs == {HttpDef}

\* The authorization flow of one HTTP definition, for what it does in the
\* end.
NextAuthWait ==
    \/ \E p \in Procs, d \in AuthWaitDefs : CallInitClient(p, d)
    \/ \E p \in Procs : PingSettles(p)
    \/ \E p \in Procs : InitSettled(p)
    \/ \E i \in 1..Len(inits) : InitTransportSettles(i)
    \/ \E i \in 1..Len(inits), r \in ConnectOutcomes : ConnectSettles(i, r)
    \/ \E i \in 1..Len(inits) : AuthCodeArrives(i)
    \/ \E i \in 1..Len(inits), ok \in BOOLEAN : FinishAuthSettles(i, ok)
    \/ \E i \in 1..Len(inits) : AuthTransportSettles(i)
    \/ \E i \in 1..Len(inits) : AuthSettles(i)
    \/ \E i \in 1..Len(inits) : AuthTimeout(i)

\* The event loop runs a task whenever one is ready, and the 5-minute timer
\* and every network call of the flow (each has a timeout of its own) end.
SpecAuthFair == Init /\ [][NextAuthWait]_vars /\ WF_vars(NextAuthWait)

CacheDefs == {HttpDef}

\* The list-tools cache: listTools, the tool-list-changed notification and
\* TTL expiry.
NextCache ==
    \/ \E p \in Procs, d \in CacheDefs : CallCached(p, d, "listTools", "none")
    \/ \E p \in Procs : PingSettles(p)
    \/ \E p \in Procs : InitSettled(p)
    \/ \E p \in Procs, r \in RemoteOutcomesPlain : CachedRemoteSettles(p, r)
    \/ \E i \in 1..Len(inits) : InitTransportSettles(i)
    \/ \E i \in 1..Len(inits), r \in ConnectOutcomesNoAuth : ConnectSettles(i, r)
    \/ \E c \in 1..Len(inits) : Notification(c, "tools")
    \/ \E k \in DOMAIN cache : Expire(k)

SpecCache == Init /\ [][NextCache]_vars

StaleDefs == {HttpDef}

\* listTools against a remote whose answers and notifications travel apart.
NextStale ==
    \/ \E p \in Procs, d \in StaleDefs : CallCached(p, d, "listTools", "none")
    \/ \E p \in Procs : PingSettles(p)
    \/ \E p \in Procs : InitSettled(p)
    \/ \E p \in Procs : RemoteAnswers(p)
    \/ \E p \in Procs, r \in RemoteOutcomesPlain : CachedRemoteSettles(p, r)
    \/ \E i \in 1..Len(inits) : InitTransportSettles(i)
    \/ \E i \in 1..Len(inits), r \in ConnectOutcomesNoAuth : ConnectSettles(i, r)
    \/ \E c \in 1..Len(inits) : Notification(c, "tools")

SpecStale == Init /\ [][NextStale]_vars

NotifyDefs == {HttpDef, NpxDef}

\* List-changed notifications against the entries listTools has cached for
\* an HTTP and a subprocess definition.
NextNotify ==
    \/ \E p \in Procs, d \in NotifyDefs : CallCached(p, d, "listTools", "none")
    \/ \E p \in Procs : PingSettles(p)
    \/ \E p \in Procs : InitSettled(p)
    \/ \E p \in Procs, r \in RemoteOutcomesPlain : CachedRemoteSettles(p, r)
    \/ \E i \in 1..Len(inits) : InitTransportSettles(i)
    \/ \E i \in 1..Len(inits), r \in ConnectOutcomesNoAuth : ConnectSettles(i, r)
    \/ \E c \in 1..Len(inits), n \in Notifications : Notification(c, n)

SpecNotify == Init /\ [][NextNotify]_vars

ResourceDefs == {HttpDef}

\* Resources: listResources and getResource against the resource-list-changed
\* and resource-updated notifications.
NextResource ==
    \/ \E p \in Procs, d \in ResourceDefs : CallCached(p, d, "listResources", "none")
    \/ \E p \in Procs, d \in ResourceDefs, a \in GetArgs : CallCached(p, d, "getResource", a)
    \/ \E p \in Procs : PingSettles(p)
    \/ \E p \in Procs : InitSettled(p)
    \/ \E p \in Procs, r \in RemoteOutcomesPlain : CachedRemoteSettles(p, r)
    \/ \E i \in 1..Len(inits) : InitTransportSettles(i)
    \/ \E i \in 1..Len(inits), r \in ConnectOutcomesNoAuth : ConnectSettles(i, r)
    \/ \E c \in 1..Len(inits), n \in {"resources", "resourceUpdated"} : Notification(c, n)

SpecResource == Init /\ [][NextResource]_vars

CloseDefs == {HttpDef}

\* Closing: stopServer, removeServer and restartServer against the entries
\* listTools and getPrompt have cached.
NextClose ==
    \/ \E p \in Procs, d \in CloseDefs : CallCached(p, d, "listTools", "none")
    \/ \E p \in Procs, d \in CloseDefs, a \in GetArgs : CallCached(p, d, "getPrompt", a)
    \/ \E p \in Procs, d \in CloseDefs : CallStopServer(p, d)
    \/ \E p \in Procs, d \in CloseDefs : CallRemoveServer(p, d)
    \/ \E p \in Procs, d \in CloseDefs : CallRestartServer(p, d)
    \/ \E p \in Procs : PingSettles(p)
    \/ \E p \in Procs : InitSettled(p)
    \/ \E p \in Procs, ok \in CloseOutcomesClean : CloseSettles(p, ok)
    \/ \E p \in Procs, r \in RemoteOutcomesPlain : CachedRemoteSettles(p, r)
    \/ \E i \in 1..Len(inits) : InitTransportSettles(i)
    \/ \E i \in 1..Len(inits), r \in ConnectOutcomesNoAuth : ConnectSettles(i, r)

SpecClose == Init /\ [][NextClose]_vars

ProbeDefs == {HttpDef, NpxDef}

\* The connectivity probe on an HTTP and a subprocess definition.
NextProbe ==
    \/ \E p \in Procs, d \in ProbeDefs : CallCheckConnectivity(p, d)
    \/ \E p \in Procs : PingSettles(p)
    \/ \E p \in Procs : InitSettled(p)
    \/ \E p \in Procs, ok \in BOOLEAN : ProbeRemoteSettles(p, ok)
    \/ \E p \in Procs : ProbeCatch(p)
    \/ \E p \in Procs, ok \in CloseOutcomes : CloseSettles(p, ok)
    \/ \E i \in 1..Len(inits) : InitTransportSettles(i)
    \/ \E i \in 1..Len(inits), r \in ConnectOutcomesNoAuth : ConnectSettles(i, r)

SpecProbe == Init /\ [][NextProbe]_vars

\* ------------------------------------------- callTool's args on their own

\* A JavaScript value: its typeof (with array told apart) and what it holds,
\* written as a text.
JsString(x) == [t |-> "string", v |-> x]

JsObject(x) == [t |-> "object", v |-> x]

JsArray(x) == [t |-> "array", v |-> x]

JsNumber(x) == [t |-> "number", v |-> x]

JsUndefined == [t |-> "undefined", v |-> ""]

\* What JSON.parse returns for the texts that are JSON.
JsonTexts ==
    [x \in {"{\"a\":1}", "{}", "[1]", "1", "\"\"", "\"b\""} |->
        CASE x = "{\"a\":1}" -> JsObject("a:1")
          [] x = "{}" -> JsObject("")
          [] x = "[1]" -> JsArray("1")
          [] x = "1" -> JsNumber("1")
          [] x = "\"\"" -> JsString("")
          [] x = "\"b\"" -> JsString("b")]

\* Whether JSON.parse(text) returns (TRUE) or throws a SyntaxError: it
\* throws for the empty text and for every text that is no JSON.
JsonParses(text) == text \in DOMAIN JsonTexts

JsonParse(text) == JsonTexts[text]

\* A normalization that passes the args on as they are.
ArgsKept(args) == args

\* Lines 671-682: a string is replaced by what JSON.parse returns, or left
\* as it is when JSON.parse throws (the error is logged); after that an args
\* that is the empty string is replaced by {}.  Any other args is left.
NormalizeArgs(args) ==
    IF args.t = "string"
    THEN LET a == IF JsonParses(args.v) THEN JsonParse(args.v) ELSE args
         IN  IF a = JsString("") THEN JsObject("") ELSE a
    ELSE args

\* The args a caller can pass: strings that are JSON, strings that are not,
\* and values that are no strings.
ToolArgs ==
    {JsString(x) : x \in DOMAIN JsonTexts \cup {"", "not json", "{\"a\":"}}
    \cup {JsObject("a:1"), JsObject(""), JsArray("1"), JsNumber("1"), JsUndefined}

\* Lines 667-683 of a callTool invocation called with args a: the slot keeps
\* the args passed and the args handed on to client.callTool.
NormalizeToolArgs(p, a) ==
    /\ Free(p)
    /\ opsStarted' = opsStarted + 1
    /\ proc' = [proc EXCEPT ![p] =
                    Done([NewProc("callToolArgs", HttpDef) EXCEPT !.arg = a], "ok",
                         NormalizeArgs(a))]
    /\ UNCHANGED <<clients, pendingClients, inits, cache, activeToolCalls, ctrls,
                   remote, changes>>

NextArgs == \E p \in Procs, a \in ToolArgs : NormalizeToolArgs(p, a)

SpecArgs == Init /\ [][NextArgs]_vars

\* ------------------------------------------------ initTransport on its own

\* initTransport applied to definition d; the slot keeps the definition as
\* it was passed and what initTransport made of it.  initTransport is no
\* handler: it takes no slot of its own and the next application uses the
\* same one.
ApplyInitTransport(p, d) ==
    /\ Free(p)
    /\ proc' = [proc EXCEPT ![p] =
                    Done(NewProc("initTransport", d), TransportOf(d),
                         IF TransportOf(d) = "stdio" THEN StdioOptions(d) ELSE 0)]
    /\ UNCHANGED <<clients, pendingClients, inits, cache, activeToolCalls, ctrls,
                   remote, opsStarted, changes>>

\* Definitions over every combination of the fields initTransport reads.
TransportDefs ==
    {[NpxDef EXCEPT !.builtin = b, !.name = n, !.baseUrl = u, !.type = t,
                    !.command = c, !.dxtPath = x, !.registryUrl = r] :
        b \in BOOLEAN, n \in {"s2", "@cherry/mcp-auto-install"},
        u \in {U, "http://x/rpc"}, t \in {U, "stdio", "sse", "streamableHttp"},
        c \in {U, "node", "npx", "uvx"}, x \in {U, "/dxt/ok", "/dxt/none"},
        r \in {U, "https://r"}}

NextTransport == \E p \in Procs, d \in TransportDefs : ApplyInitTransport(p, d)

SpecTransport == Init /\ [][NextTransport]_vars

\* ------------------------------------------------ getServerKey on its own

\* Lines 159-168 applied to definition d by a handler: the slot keeps the
\* definition and the key.
CallGetServerKey(p, d) ==
    /\ Free(p)
    /\ opsStarted' = opsStarted + 1
    /\ proc' = [proc EXCEPT ![p] = Done(NewProc("getServerKey", d), "ok", 0)]
    /\ UNCHANGED <<clients, pendingClients, inits, cache, activeToolCalls, ctrls,
                   remote, changes>>

\* {A:"1", B:"2"} and {B:"2", A:"1"}: one env written in two orders.
EnvAB == EnvObj(<<<<"A", "1">>, <<"B", "2">>>>)

EnvBA == EnvObj(<<<<"B", "2">>, <<"A", "1">>>>)

\* Definitions that differ in one or more fields: name (no key field),
\* registryUrl, args (absent, empty, one item), env (absent, and one env in
\* two insertion orders), and one variant each of id, baseUrl and command.
KeyDefs ==
    {[NpxDef EXCEPT !.name = n, !.registryUrl = r, !.args = a, !.env = e] :
        n \in {"s2", "renamed"}, r \in {U, "https://r"},
        a \in {ArgsUndef, ArgsArr(<<>>), ArgsArr(<<"pkg">>)},
        e \in {EnvUndef, EnvAB, EnvBA}}
    \cup {[NpxDef EXCEPT !.id = "s1"], [NpxDef EXCEPT !.baseUrl = "http://x/rpc"],
          [NpxDef EXCEPT !.command = "uvx"]}

NextKey == \E p \in Procs, d \in KeyDefs : CallGetServerKey(p, d)

SpecKey == Init /\ [][NextKey]_vars

ListDefs == {HttpDef}

\* The listings that degrade: listPrompts and listResources against a remote
\* that answers, does not support the method, or fails.
NextLists ==
    \/ \E p \in Procs, d \in ListDefs : CallCached(p, d, "listPrompts", "none")
    \/ \E p \in Procs, d \in ListDefs : CallCached(p, d, "listResources", "none")
    \/ \E p \in Procs : PingSettles(p)
    \/ \E p \in Procs : InitSettled(p)
    \/ \E p \in Procs, r \in RemoteOutcomes : CachedRemoteSettles(p, r)
    \/ \E i \in 1..Len(inits) : InitTransportSettles(i)
    \/ \E i \in 1..Len(inits), r \in ConnectOutcomesNoAuth : ConnectSettles(i, r)

SpecLists == Init /\ [][NextLists]_vars

CallDefs == {HttpDef}

\* Tool calls: callTool and abortTool, with the initializations they start.
NextCall ==
    \/ \E p \in Procs, d \in CallDefs, id \in CallIds : CallTool(p, d, id)
    \/ \E p \in Procs, id \in CallIds : AbortTool(p, id)
    \/ \E p \in Procs : PingSettles(p)
    \/ \E p \in Procs : InitSettled(p)
    \/ \E p \in Procs : ToolCallSettles(p)
    \/ \E i \in 1..Len(inits) : InitTransportSettles(i)
    \/ \E i \in 1..Len(inits), r \in ConnectOutcomesNoAuth : ConnectSettles(i, r)

SpecCall == Init /\ [][NextCall]_vars

\* ------------------------------------------------- claims on the registry

\* An initialization that has not settled.
InFlight(i) ==
    inits[i].pc \in {"transport", "connect", "auth", "finishAuth", "retransport", "reconnect"}

\* C1: callers that are inside initClient for the same serverKey at the same
\* time, none of them resolved, all await one and the same initialization
\* (one transport construction, one connect), so all receive its result.
C1_ConcurrentCallersShareOneInit ==
    \A p, q \in Procs :
        (/\ proc[p].pc = "awaitInit"
         /\ proc[q].pc = "awaitInit"
         /\ proc[p].key = proc[q].key)
        => proc[p].init = proc[q].init

\* C2: at most one initialization is in flight for a serverKey, in every
\* interleaving, also for callers that arrive during the ping of a cached
\* client.
C2_OneInitInFlightPerKey ==
    \A i, j \in 1..Len(inits) :
        (InFlight(i) /\ InFlight(j) /\ inits[i].key = inits[j].key) => i = j

\* C3: pendingClients never holds a settled promise: once an initialization
\* has settled, by success or by any failure, its entry is gone.
C3_NoSettledPromisePending ==
    \A k \in DOMAIN pendingClients : InFlight(pendingClients[k])

HttpTransport(server) == ~server.builtin /\ server.baseUrl # U

\* C12: handleAuth is started, and its callback listener opened, only by an
\* initialization whose connect was made on an HTTP transport.
C12_AuthOnlyOnHttpTransport ==
    \A i \in 1..Len(inits) :
        inits[i].authStarted => HttpTransport(proc[inits[i].by].server)

C14_ConnectRetriedOnce ==
    /\ [](\A i \in 1..Len(inits) :
            /\ inits[i].connects <= 2
            /\ inits[i].connects = 2 => inits[i].authStarted /\ ~inits[i].timedOut
            /\ inits[i].pc \in {"auth", "finishAuth", "retransport"} => inits[i].connects = 1
            /\ inits[i].pc = "reconnect" => inits[i].connects = 2)
    /\ [][\A i \in 1..Len(inits) :
            (inits[i].pc = "finishAuth" => inits'[i].pc \in {"finishAuth", "retransport", "failed"})
            /\ (inits[i].pc = "reconnect" => inits'[i].pc \in {"reconnect", "ok", "failed"})]_vars

\* C14 witness: an initialization has connected at its second attempt and
\* another has failed at its second attempt.
C14_Witness ==
    \E i, j \in 1..Len(inits) :
        /\ inits[i].connects = 2 /\ inits[i].pc = "ok"
        /\ inits[j].connects = 2 /\ inits[j].pc = "failed"

\* C15: no initialization whose handleAuth has ended, by success, by failure
\* or by the timeout, has its callback listener open.
C15_ListenerClosedOnEveryExit ==
    \A i \in 1..Len(inits) :
        (inits[i].pc \in {"ok", "failed"} \/ inits[i].timedOut) => ~inits[i].listener

\* C15 witness: handleAuth has ended by success, by a failed token exchange
\* or retry, and by the timeout, each with the listener closed.
C15_Witness ==
    \E i, j, k \in 1..Len(inits) :
        /\ inits[i].authStarted /\ inits[i].pc = "ok" /\ ~inits[i].listener
        /\ inits[j].authStarted /\ inits[j].pc = "failed" /\ ~inits[j].timedOut
        /\ ~inits[j].listener
        /\ inits[k].timedOut /\ ~inits[k].listener

\* ------------------------------------------- claims on the live connections

\* C16: every open client is the registry entry of its serverKey, so a key
\* has at most one open connection and a client that left the registry has
\* been closed.
C16_OpenClientIsRegistered ==
    \A i \in 1..Len(inits) :
        inits[i].open =>
            /\ inits[i].key \in DOMAIN clients
            /\ clients[inits[i].key] = i

\* The entries of an env as a set: what an env holds whatever the order its
\* properties were inserted in.
EnvEntries(env) == {Spread(env)[i] : i \in 1..Len(Spread(env))}

\* Two definitions agree on the key-relevant fields: the same baseUrl,
\* command, registryUrl and id, the same args (no args and an empty list are
\* the same arguments) and the same env entries.
SameKeyFields(a, b) ==
    /\ a.baseUrl = b.baseUrl
    /\ a.command = b.command
    /\ a.registryUrl = b.registryUrl
    /\ a.id = b.id
    /\ a.args.items = b.args.items
    /\ a.env.kind = b.env.kind
    /\ EnvEntries(a.env) = EnvEntries(b.env)

\* C19: two definitions have the same serverKey exactly when they agree on
\* the key-relevant fields, whatever their other fields and whatever the
\* insertion order of their env.
C19_KeyIsFunctionOfKeyFields ==
    \A p, q \in Procs :
        (proc[p].op = "getServerKey" /\ proc[q].op = "getServerKey") =>
            (SameKeyFields(proc[p].server, proc[q].server) <=> proc[p].key = proc[q].key)

\* The definition a handler was called with: the definitions the handlers of
\* the registry specifications are called with have an id each.
DefinitionPassed(server) ==
    CHOOSE d \in {HttpDef, NpxDef, BadArgsDef} : d.id = server.id

\* C20: the server object a handler was called with stays as it was passed
\* in, while initClient runs and after it has succeeded or failed.
C20_DefinitionUnchanged ==
    \A p \in Procs :
        proc[p].op \in {"initClient"} \cup CachedOps \cup {"callTool", "restartServer",
                                                         "checkMcpConnectivity"}
            => proc[p].server = DefinitionPassed(proc[p].server)

\* ----------------------------------------------- claims on callTool's args

\* C24 as claimed: a string that parses is replaced by the parsed value, the
\* empty string by {}, a non-empty string that does not parse and every
\* value that is no string are passed on unchanged.
C24_ArgsNormalized ==
    \A p \in Procs :
        proc[p].op = "callToolArgs" =>
            LET a == proc[p].arg
                n == proc[p].value
            IN  /\ proc[p].result = "ok"
                /\ (a.t = "string" /\ JsonParses(a.v)) => n = JsonParse(a.v)
                /\ a = JsString("") => n = JsObject("")
                /\ (a.t = "string" /\ a.v # "" /\ ~JsonParses(a.v)) => n = a
                /\ a.t # "string" => n = a

\* C24 as amended: as claimed, but a string whose parsed value is the empty
\* string is replaced by {} like the empty string itself.
C24_ArgsNormalizedEmptyToObject ==
    \A p \in Procs :
        proc[p].op = "callToolArgs" =>
            LET a == proc[p].arg
                n == proc[p].value
            IN  /\ proc[p].result = "ok"
                /\ (a.t = "string" /\ JsonParses(a.v)) =>
                        n = IF JsonParse(a.v) = JsString("") THEN JsObject("")
                            ELSE JsonParse(a.v)
                /\ a = JsString("") => n = JsObject("")
                /\ (a.t = "string" /\ a.v # "" /\ ~JsonParses(a.v)) => n = a
                /\ a.t # "string" => n = a

\* C24 witness: calls with a JSON object text, with the empty string and
\* with a text that is no JSON have been normalized.
C24_Witness ==
    \E p, q, r \in Procs :
        /\ proc[p].op = "callToolArgs" /\ proc[p].arg = JsString("{\"a\":1}")
        /\ proc[p].value = JsObject("a:1")
        /\ proc[q].op = "callToolArgs" /\ proc[q].arg = JsString("")
        /\ proc[q].value = JsObject("")
        /\ proc[r].op = "callToolArgs" /\ proc[r].arg = JsString("not json")
        /\ proc[r].value = JsString("not json")

\* ------------------------------------------------- claims on initTransport

\* The definition is served in process: a built-in other than auto-install.
InProcess(server) == server.builtin /\ server.name # "@cherry/mcp-auto-install"

\* C22 as claimed: an in-process definition gets the in-memory pair; else a
\* definition with a URL gets the HTTP-streaming or SSE transport; else one
\* with a command gets the subprocess transport; construction fails only
\* for a definition with neither, with the error that neither was provided.
C22_TransportDecisionOrder ==
    \A p \in Procs :
        proc[p].op = "initTransport" =>
            LET d == proc[p].server
                t == proc[p].result
            IN  /\ InProcess(d) => t = "inMemory"
                /\ (~InProcess(d) /\ d.baseUrl # U) => t \in {"streamableHttp", "sse"}
                /\ (~InProcess(d) /\ d.baseUrl = U /\ d.command # U) => t = "stdio"
                /\ (~InProcess(d) /\ d.baseUrl = U /\ d.command = U)
                        <=> t = "Either baseUrl or command must be provided"
                /\ t \in {"inMemory", "streamableHttp", "sse", "stdio",
                          "Either baseUrl or command must be provided"}

\* C22 as amended: the same order, and a definition with a URL gets the
\* transport of its type only when the type is streamableHttp or sse; with
\* any other type construction fails with 'Invalid server type', also when
\* a command is present.
C22_TransportDecisionOrderByType ==
    \A p \in Procs :
        proc[p].op = "initTransport" =>
            LET d == proc[p].server
                t == proc[p].result
            IN  /\ InProcess(d) => t = "inMemory"
                /\ (~InProcess(d) /\ d.baseUrl # U /\ d.type \in {"streamableHttp", "sse"})
                        => t = d.type
                /\ (~InProcess(d) /\ d.baseUrl # U /\ d.type \notin {"streamableHttp", "sse"})
                        => t = "Invalid server type"
                /\ (~InProcess(d) /\ d.baseUrl = U /\ d.command # U) => t = "stdio"
                /\ (~InProcess(d) /\ d.baseUrl = U /\ d.command = U)
                        <=> t = "Either baseUrl or command must be provided"

\* C22 witness: a definition with a URL and a command got the transport of
\* its type.
C22_Witness ==
    \E p \in Procs :
        /\ proc[p].op = "initTransport"
        /\ ~InProcess(proc[p].server)
        /\ proc[p].server.baseUrl # U
        /\ proc[p].server.command # U
        /\ proc[p].server.type = "sse"
        /\ proc[p].result = "sse"

\* C23: the subprocess of a definition whose bundle configuration resolves
\* is spawned with the resolved command and args, with every resolved env
\* entry, and in the bundle path, whatever the raw command of the definition.
C23_BundleTakesPrecedence ==
    \A p \in Procs :
        (/\ proc[p].op = "initTransport"
         /\ proc[p].result = "stdio"
         /\ BundleResolves(proc[p].server))
        => LET cfg == getResolvedMcpConfig(proc[p].server.dxtPath)
               o   == proc[p].value
           IN  /\ o.command = cfg.command
               /\ o.args = cfg.args
               /\ \A i \in 1..Len(cfg.env) : Includes(o.env, cfg.env[i])
               /\ o.cwd = proc[p].server.dxtPath

\* C18: checkMcpConnectivity ends by returning true or false and never by
\* throwing; it returns true only after initClient and the tool listing both
\* succeeded, and when it returns false the registry holds no client for the
\* serverKey of the definition it was called with.
C18_ProbeFailureLeavesCleanSlate ==
    [][\A p \in Procs :
          (/\ proc'[p].op = "checkMcpConnectivity"
           /\ proc[p].pc # "done"
           /\ proc'[p].pc = "done")
          => /\ proc'[p].result \in {"true", "false"}
             /\ proc'[p].result = "true" =>
                    proc'[p].computed /\ proc'[p].outcome = "ok"
             /\ proc'[p].result = "false" => proc'[p].key \notin DOMAIN clients']_vars

\* C29: when restartServer returns, the registry holds for the key a client
\* of an initialization that was started after restartServer was called,
\* and the cache holds no list of the key.
C29_RestartYieldsFreshClient ==
    [][\A p \in Procs :
          (/\ proc'[p].op = "restartServer"
           /\ proc[p].pc # "done"
           /\ proc'[p].pc = "done"
           /\ proc'[p].result = "ok")
          => /\ proc'[p].key \in DOMAIN clients'
             /\ clients'[proc'[p].key] > proc'[p].initsBefore
             /\ \A k \in DOMAIN cache' :
                    k[2] = proc'[p].key => k[1] \notin ListKinds]_vars

\* C27: when the close awaited by closeClient settles and the registry
\* holds for the key another client than the one that was closed, that
\* client is still the registry entry of the key afterwards.
C27_CloseRemovesOnlyClosedClient ==
    [][\A p \in Procs :
          (/\ proc[p].pc = "closing"
           /\ proc'[p].pc # "closing"
           /\ proc[p].key \in DOMAIN clients
           /\ clients[proc[p].key] # proc[p].existing)
          => /\ proc[p].key \in DOMAIN clients'
             /\ clients'[proc[p].key] = clients[proc[p].key]]_vars

\* C25: for every client an initialization has registered, the serverKey it
\* is registered under, the serverKey its notification handlers delete cache
\* entries with and the serverKey of the server object the initialization
\* was started with, as it is now, are the same.
C25_KeyStableAcrossInit ==
    \A i \in 1..Len(inits) :
        inits[i].registered =>
            /\ inits[i].handlerKey = inits[i].key
            /\ getServerKey(proc[inits[i].by].server) = inits[i].key

\* ---------------------------------------------------- claims on the cache

\* C5: a tool-list-changed notification on the live connection registered
\* for serverKey K leaves no list-tools entry under K, the key listTools
\* caches under, for every server definition; the entries of every other key
\* stay.
C5_ToolListChangedInvalidates ==
    [][\A c \in 1..Len(inits) :
          (/\ Notification(c, "tools")
           /\ inits[c].key \in DOMAIN clients
           /\ clients[inits[c].key] = c)
          => /\ <<"list_tool", inits[c].key, "none">> \notin DOMAIN cache'
             /\ \A k \in DOMAIN cache : k[2] # inits[c].key => k \in DOMAIN cache']_vars

\* C6 as claimed: no listTools call invokes the remote listing while the
\* cache holds an entry for its key, stored by another call and neither
\* expired nor invalidated: inside one TTL window the listing is computed
\* once, also by calls issued while the first one was computing.
C6_ComputedOncePerWindow ==
    \A p \in Procs : proc[p].op = "listTools" => ~proc[p].redundant

\* C6 as amended: a listTools call that starts while the cache holds an entry
\* for its key makes no remote listing and returns the value computed by the
\* call that stored the entry.
C6_EntryFoundIsServed ==
    \A p \in Procs :
        (proc[p].op = "listTools" /\ proc[p].entryAtStart # 0) =>
            LET w == proc[proc[p].entryAtStart] IN
            /\ proc[p].pc = "done"
            /\ proc[p].result = "ok"
            /\ ~proc[p].computed
            /\ w.computed
            /\ CacheKeyOf(w) = CacheKeyOf(proc[p])
            /\ proc[p].value = w.value

\* C6 witness: a listTools call was served the value an earlier call stored.
C6_Witness ==
    \E p \in Procs :
        /\ proc[p].op = "listTools"
        /\ proc[p].entryAtStart # 0
        /\ proc[p].pc = "done"
        /\ proc[p].value = proc[proc[p].entryAtStart].value

\* C17: a listPrompts or listResources call whose remote listing failed
\* returns the empty list only when the remote reported method-not-supported
\* (code -32601); after any other failure of the listing the call throws.
C17_EmptyListOnlyWhenNotSupported ==
    \A p \in Procs :
        (proc[p].op \in {"listPrompts", "listResources"} /\ proc[p].pc = "done") =>
            /\ (proc[p].result = "ok" /\ proc[p].value = EmptyList)
                    => proc[p].outcome \in {"none", "notSupported"}
            /\ proc[p].outcome = "error" => proc[p].result = "error"

\* C26: the cache holds no list of a key that the remote produced before a
\* list-changed notification for the key was handled: a cached tool list is
\* the list the remote holds.
C26_NoListFromBeforeInvalidation ==
    \A k \in DOMAIN cache :
        k[1] = "list_tool" => cache[k].val = remote[<<k[2].id, "list_tool">>]

\* C30: a call of a cached handler whose remote call failed with an error
\* other than method-not-supported, or whose initClient failed, writes no
\* cache entry: the entry of its cache key is as it was before the call
\* ended.
C30_FailureWritesNoCacheEntry ==
    [][\A p \in Procs :
          (/\ proc'[p].op \in CachedOps
           /\ proc[p].pc # "done"
           /\ proc'[p].pc = "done"
           /\ (proc'[p].outcome = "error" \/ proc'[p].result = "error"))
          => LET k == CacheKeyOf(proc'[p]) IN
             k \in DOMAIN cache' => (k \in DOMAIN cache /\ cache'[k] = cache[k])]_vars

\* C11: a resource-updated notification on the live connection registered
\* for serverKey K leaves no cached resource data of K: neither the resource
\* list nor any fetched resource.
C11_ResourceUpdatedInvalidates ==
    [][\A c \in 1..Len(inits) :
          (/\ Notification(c, "resourceUpdated")
           /\ inits[c].key \in DOMAIN clients
           /\ clients[inits[c].key] = c)
          => \A k \in DOMAIN cache' :
                (k[2] = inits[c].key) => k[1] \notin {"list_resources", "get_resource"}]_vars

\* The handlers that end in closeClient.
CloseOps == {"stopServer", "removeServer", "restartServer"}

\* C10: when stopServer, removeServer or restartServer for serverKey K
\* returns, the cache holds no entry of any kind for K, whether or not a
\* client was registered.
C10_CloseClearsEveryCacheKind ==
    [][\A p \in Procs :
          (proc'[p].op \in CloseOps /\ proc[p].pc # "done" /\ proc'[p].pc = "done")
          => \A k \in DOMAIN cache' : k[2] # proc'[p].key]_vars

\* ------------------------------------------------ claims on the tool calls

\* C28: the signal a callTool invocation hands to its remote call is the
\* signal of the AbortController the invocation itself created.
C28_RemoteCallGetsOwnSignal ==
    \A p \in Procs :
        (proc[p].op = "callTool" /\ proc[p].pc = "remote") => proc[p].signal = proc[p].ctrl

\* C7: an invocation of callTool that abortTool has aborted settles as
\* cancelled once its remote call has been issued, also when the abort came
\* while the invocation was awaiting initClient.
C7_AbortedCallSettlesCancelled ==
    \A p \in Procs :
        (/\ proc[p].op = "callTool"
         /\ proc[p].pc = "done"
         /\ proc[p].computed
         /\ ctrls[proc[p].ctrl])
        => proc[p].result = "cancelled"

\* C8: abortTool returns true only for a callId of an invocation that is in
\* flight and not yet aborted (so false for an unknown, completed or already
\* aborted one, and true then false for two calls in a row), and a call that
\* returns false changes neither activeToolCalls, the registry nor the cache.
C8_AbortOfInactiveCallIsNoOp ==
    /\ [](\A p \in Procs :
            (proc[p].op = "abortTool" /\ proc[p].result = "true") => proc[p].wasActive)
    /\ [][\A p \in Procs :
            (proc[p].op # "abortTool" /\ proc'[p].op = "abortTool"
                /\ proc'[p].result = "false")
            => UNCHANGED <<activeToolCalls, ctrls, clients, pendingClients, cache>>]_vars

\* C8 witness: abortTool has returned true and then false for the callId of
\* one invocation of callTool.
C8_Witness ==
    \E p, q, c \in Procs :
        /\ p < q
        /\ proc[p].op = "abortTool" /\ proc[p].result = "true"
        /\ proc[q].op = "abortTool" /\ proc[q].result = "false"
        /\ proc[p].callId = proc[q].callId
        /\ proc[c].op = "callTool" /\ proc[c].callId = proc[p].callId

\* C9: every entry of activeToolCalls belongs to an invocation of callTool
\* that is in flight; when none is in flight the map is empty.
C9_NoActiveCallLeaked ==
    /\ \A id \in DOMAIN activeToolCalls :
        \E p \in Procs :
            /\ proc[p].op = "callTool"
            /\ proc[p].pc # "done"
            /\ proc[p].callId = id
    /\ (\A p \in Procs : proc[p].op = "callTool" => proc[p].pc = "done")
            => DOMAIN activeToolCalls = {}

\* C9 witness: invocations have settled, one by the failure of initClient
\* and one by cancellation, and the map is empty.
C9_Witness ==
    /\ DOMAIN activeToolCalls = {}
    /\ \A p \in Procs : proc[p].pc \in {"idle", "done"}
    /\ \E p \in Procs : proc[p].op = "callTool" /\ proc[p].result = "error" /\ ~proc[p].computed
    /\ \E p \in Procs : proc[p].op = "callTool" /\ proc[p].result = "cancelled"

====
